---- MODULE Spec2Model ----
(***************************************************************************)
(* A model of tools/swift/Completion.cpp: the REPL completion session      *)
(* (REPLCompletions), its result consumer (REPLCodeCompletionConsumer)     *)
(* and the completion pass doCodeCompletion over a translation unit.       *)
(*                                                                         *)
(* Strings are sequences of one-character strings.  The parser, the type   *)
(* checker and the completion generator are external services: a pass is   *)
(* a sequence of steps in which they append declarations, raise the error  *)
(* flag and deliver batches of raw results, chosen nondeterministically.   *)
(***************************************************************************)
EXTENDS Integers, Sequences, FiniteSets, TLC

\* ------------------------------------------------------------------ bounds
MaxCodeLen == 2      \* longest entered code
MaxChunks == 2       \* most parse chunks of one pass
MaxResults == 2      \* most raw results delivered during one populate
MaxBuffers == 3      \* most source buffers registered in one behaviour
MaxCalls == 3        \* most getNextStem calls counted after one populate
MaxChunksPerResult == 3  \* most chunks of a raw result that is rendered alone

\* ----------------------------------------------------------------- strings
NUL == "NUL"
CodeAlphabet == {"a", ".", " "}
Letters == {"a", "b", "x"}
Keywords == {<<"a", "a">>}

StrOfLen(A, n) == [1..n -> A]
Codes == UNION {StrOfLen(CodeAlphabet, n) : n \in 0..MaxCodeLen}

\* StringRef::startswith
StartsWith(S, P) == Len(P) <= Len(S) /\ SubSeq(S, 1, Len(P)) = P

Min(a, b) == IF a <= b THEN a ELSE b

\* StringRef::substr(Start): Start is clamped to the length.
SubstrFrom(S, Start) == SubSeq(S, Min(Start, Len(S)) + 1, Len(S))

\* StringRef::substr(0, N): N is clamped to the length.
SubstrTo(S, N) == SubSeq(S, 1, Min(N, Len(S)))

\* ---------------------------------------------------------- raw results
LiteralKinds == {"Text", "LeftParen", "RightParen", "LeftBracket",
                 "RightBracket", "Dot", "Comma"}
NonLiteralKinds == {"CallParameterName", "CallParameterNameAnnotation",
                    "CallParameterColon", "CallParameterColonAnnotation",
                    "CallParameterType", "OptionalBegin",
                    "CallParameterBegin", "TypeAnnotation"}

Chunk(k, t) == [kind |-> k, text |-> t]

\* The completions the generator may emit.
RawResults ==
  { << Chunk("Text", <<"a", "b">>), Chunk("LeftParen", <<"(">>),
       Chunk("CallParameterName", <<"x">>), Chunk("RightParen", <<")">>) >>,
    << Chunk("Text", <<"a">>), Chunk("Text", <<"b">>) >>,
    << Chunk("Text", <<"b">>) >> }

\* InsertableFrom going on to the next chunk after a non-literal one
RECURSIVE InsertableFromSkipping(_, _, _)
InsertableFromSkipping(chunks, i, Str) ==
  IF i > Len(chunks) THEN Str
  ELSE IF chunks[i].kind \in LiteralKinds
       THEN InsertableFromSkipping(chunks, i + 1, Str \o chunks[i].text)
       ELSE InsertableFromSkipping(chunks, i + 1, Str)

RECURSIVE InsertableFrom(_, _, _)
InsertableFrom(chunks, i, Str) ==
  IF i > Len(chunks) THEN Str
  ELSE IF chunks[i].kind \in LiteralKinds
       THEN InsertableFrom(chunks, i + 1, Str \o chunks[i].text)
       ELSE Str

toInsertableString(Result) == InsertableFrom(Result, 1, <<>>)

RECURSIVE PrintFrom(_, _)
PrintFrom(chunks, i) ==
  IF i > Len(chunks) THEN <<>> ELSE chunks[i].text \o PrintFrom(chunks, i + 1)

\* CodeCompletionResult::print: the full rendering.
PrintResult(Result) == PrintFrom(Result, 1)


\* ------------------------------------------------------------ the collector
\* std::string::substr(pos), called with pos <= size
StdSubstr(S, pos) == SubSeq(S, pos + 1, Len(S))

Contains(q, x) == \E i \in DOMAIN q : q[i] = x

\* HandleFrom leaving out a result whose text is already stored
RECURSIVE HandleFromSkippingDuplicates(_, _, _, _, _)
HandleFromSkippingDuplicates(Results, i, P, strs, ins) ==
  IF i > Len(Results) THEN [strs |-> strs, ins |-> ins]
  ELSE LET InsertableString == toInsertableString(Results[i]) IN
       IF StartsWith(InsertableString, P)
            /\ ~Contains(ins, StdSubstr(InsertableString, Len(P)))
       THEN HandleFromSkippingDuplicates(Results, i + 1, P,
                       Append(strs, PrintResult(Results[i])),
                       Append(ins, StdSubstr(InsertableString, Len(P))))
       ELSE HandleFromSkippingDuplicates(Results, i + 1, P, strs, ins)

RECURSIVE HandleFrom(_, _, _, _, _)
HandleFrom(Results, i, P, strs, ins) ==
  IF i > Len(Results) THEN [strs |-> strs, ins |-> ins]
  ELSE LET InsertableString == toInsertableString(Results[i]) IN
       IF StartsWith(InsertableString, P)
       THEN HandleFrom(Results, i + 1, P,
                       Append(strs, PrintResult(Results[i])),
                       Append(ins, StdSubstr(InsertableString, Len(P))))
       ELSE HandleFrom(Results, i + 1, P, strs, ins)

\* REPLCodeCompletionConsumer::handleResults on the session's prefix and lists
handleResults(Results, P, strs, ins) == HandleFrom(Results, 1, P, strs, ins)

\* ------------------------------------------------------------ the tokenizer
\* tokenize is defined outside Completion.cpp.  It is modelled by its
\* contract: an ordered sequence of tokens, each with its kind, text and
\* position, lexed from the buffer up to the sentinel that doCodeCompletion
\* appends; runs of letters are identifiers or keywords, blanks separate
\* tokens, any other character is a token of its own.
Token(k, t, l) == [kind |-> k, text |-> t, loc |-> l]

\* One past the last letter of the run of letters that starts at i.
RECURSIVE RunEnd(_, _)
RunEnd(buf, i) ==
  IF i <= Len(buf) /\ buf[i] \in Letters THEN RunEnd(buf, i + 1) ELSE i

\* The tokens from position i (1-based) up to the sentinel; a token's loc is
\* its 0-based offset in the buffer.
RECURSIVE LexFrom(_, _)
LexFrom(buf, i) ==
  IF i > Len(buf) \/ buf[i] = NUL THEN <<>>
  ELSE IF buf[i] = " " THEN LexFrom(buf, i + 1)
  ELSE IF buf[i] \in Letters
       THEN LET j == RunEnd(buf, i)
                t == SubSeq(buf, i, j - 1)
            IN  <<Token(IF t \in Keywords THEN "keyword" ELSE "identifier",
                        t, i - 1)>> \o LexFrom(buf, j)
       ELSE <<Token("other", <<buf[i]>>, i - 1)>> \o LexFrom(buf, i + 1)

tokenize(buf) == LexFrom(buf, 1)

\* ----------------------------------------------------------------- the root
\* Optional<std::string>
None == <<>>
Some(v) == <<v>>

\* The number of leading characters on which R and S agree.
RECURSIVE CommonLen(_, _, _)
CommonLen(R, S, k) ==
  IF k < Len(R) /\ k < Len(S) /\ R[k + 1] = S[k + 1]
  THEN CommonLen(R, S, k + 1) ELSE k

\* std::mismatch(RootStr.begin(), RootStr.end(), S.begin()) followed by the
\* resize: the possible new values of RootStr.  The scan is bounded by
\* RootStr alone; when S is a proper prefix of RootStr it goes on reading the
\* bytes that follow S in memory, which may or may not continue to match.
Mismatch(R, S) ==
  LET k == CommonLen(R, S, 0) IN
  IF k = Len(S) /\ k < Len(R)
  THEN {[root |-> SubSeq(R, 1, j), oob |-> TRUE] : j \in k..Len(R)}
  ELSE {[root |-> SubSeq(R, 1, k), oob |-> FALSE]}

RECURSIVE RootFold(_, _, _, _)
RootFold(R, ss, i, oob) ==
  IF i > Len(ss) THEN {[root |-> R, oob |-> oob]}
  ELSE UNION {RootFold(m.root, ss, i + 1, oob \/ m.oob) : m \in Mismatch(R, ss[i])}

\* REPLCompletions::getRoot: the values it may return (and cache), each with
\* whether computing it read past the end of a candidate.
getRoot(root, ins) ==
  IF root # None THEN {[root |-> root[1], oob |-> FALSE]}
  ELSE IF ins = <<>> THEN {[root |-> <<>>, oob |-> FALSE]}
  ELSE RootFold(ins[1], ins, 1, FALSE)

\* --------------------------------------------------------------- the cursor
\* size_t arithmetic, at a width of 16 bits
SizeMod == 2 ^ 16
Unset == SizeMod - 1          \* ~size_t(0)

\* NextIdx wrapping one candidate early
NextIdxWrapsEarly(cur, n) ==
  LET inc == (cur + 1) % SizeMod IN IF inc >= n - 1 THEN 0 ELSE inc

\* CurrentCompletionIdx++ and the wraparound test of getNextStem
NextIdx(cur, n) ==
  LET inc == (cur + 1) % SizeMod IN IF inc >= n THEN 0 ELSE inc

\* The stem of a candidate: its text after the root.
Stem(S, r) == SubstrFrom(S, Len(r))

\* getPreviousStem stepping back to the candidate before the cursor
getPreviousStemBackward(cur, ins, root) ==
  IF cur = Unset \/ ins = <<>>
  THEN {[ret |-> <<>>, root |-> root, oob |-> FALSE]}
  ELSE {[ret |-> Stem(ins[((cur + Len(ins) - 1) % Len(ins)) + 1], r.root),
         root |-> Some(r.root), oob |-> r.oob] : r \in getRoot(root, ins)}

\* REPLCompletions::getPreviousStem: what it may return, with the root it
\* leaves cached.
getPreviousStem(cur, ins, root) ==
  IF cur = Unset \/ ins = <<>>
  THEN {[ret |-> <<>>, root |-> root, oob |-> FALSE]}
  ELSE {[ret |-> Stem(ins[cur + 1], r.root), root |-> Some(r.root),
         oob |-> r.oob] : r \in getRoot(root, ins)}

\* REPLCompletions::getNextStem: what it may return, with the cursor and the
\* root it leaves.
getNextStem(cur, ins, root) ==
  IF ins = <<>>
  THEN {[ret |-> <<>>, idx |-> cur, root |-> root, oob |-> FALSE]}
  ELSE LET idx == NextIdx(cur, Len(ins)) IN
       {[ret |-> Stem(ins[idx + 1], r.root), idx |-> idx,
         root |-> Some(r.root), oob |-> r.oob] : r \in getRoot(root, ins)}

\* Classify without the Unique case
ClassifyNoUnique(ins) == IF ins = <<>> THEN "Empty" ELSE "CompletedRoot"

\* Classify testing the size against 1 first
ClassifyEmptyAsUnique(ins) ==
  IF Len(ins) <= 1 THEN "Unique" ELSE "CompletedRoot"

\* The classification at the end of populate
Classify(ins) ==
  IF ins = <<>> THEN "Empty"
  ELSE IF Len(ins) = 1 THEN "Unique" ELSE "CompletedRoot"

\* ------------------------------------------------------ the completion pass
AugmentedCode(code) == code \o <<NUL>> \o <<" ", "#">>

\* ResizeDecls leaving the added declarations in place
ResizeDeclsKeepsAdded(decls, n) == decls

\* TU->Decls.resize(OriginalDeclCount)
ResizeDecls(decls, n) ==
  IF n <= Len(decls) THEN SubSeq(decls, 1, n)
  ELSE decls \o [i \in 1..(n - Len(decls)) |-> "null"]

Reverse(q) == [i \in 1..Len(q) |-> q[Len(q) + 1 - i]]

\* AddConsumers putting the consumers back last first
AddConsumersReversed(diags, taken) == diags \o Reverse(taken)

\* Diags.addConsumer for each taken consumer, in order
AddConsumers(diags, taken) == diags \o taken

\* What one parse chunk appends to TU->Decls: nothing, or a declaration of
\* the incomplete code
NewDecls(added) == IF added THEN <<"speculative">> ELSE <<>>

\* -------------------------------------------------------------------- state
VARIABLES
  \* REPLCompletions
  State, Prefix, Root, CurrentCompletionIdx,
  CompletionStrings, CompletionInsertableStrings,
  \* the translation unit and its AST context
  Decls, DiagConsumers, HadAnyError, NumBuffers,
  \* (the source manager is its number of buffers; Buffer below is the
  \* text of the buffer that BufferID names)
  \* populate and doCodeCompletion in progress
  pc, EnteredCode, PassCode, Buffer, TakenConsumers, OriginalDeclCount,
  pass, chunks,
  \* the history the properties speak of
  emitted,        \* the raw results delivered, with their pass, during the
                  \* populate in progress or just returned
  DeclsAtCall,    \* Decls when populate was called
  BuffersAtCall,  \* NumBuffers when populate was called
  ConsumersAtCall,\* DiagConsumers when populate was called
  nextCalls,      \* getNextStem calls since the last populate
  lastOp,         \* the operation that returned last
  ret,            \* the string it returned
  oobRead,        \* whether it read past the end of a candidate
  declsAdded,     \* whether that populate's passes added a declaration
  errorRaised     \* whether that populate's passes raised the error flag

session == <<State, Prefix, Root, CurrentCompletionIdx,
             CompletionStrings, CompletionInsertableStrings>>
unit == <<Decls, DiagConsumers, HadAnyError, NumBuffers>>
locals == <<pc, EnteredCode, PassCode, Buffer, TakenConsumers,
            OriginalDeclCount, pass, chunks>>
history == <<emitted, DeclsAtCall, BuffersAtCall, ConsumersAtCall, nextCalls,
             lastOp, ret, oobRead>>
passNotes == <<declsAdded, errorRaised>>
vars == <<session, unit, locals, history, passNotes>>

Batches == UNION {StrOfLen(RawResults, n) : n \in 1..MaxResults}

\* The REPLCompletions constructor, on a translation unit that holds some
\* declarations and has the REPL's diagnostic consumers attached.
Init ==
  /\ State = "Invalid"
  /\ Prefix = <<>>
  /\ Root = None
  /\ CurrentCompletionIdx = Unset
  /\ CompletionStrings = <<>>
  /\ CompletionInsertableStrings = <<>>
  /\ Decls = <<"persistent">>
  /\ DiagConsumers = <<"printing", "logging">>
  /\ HadAnyError \in BOOLEAN
  /\ NumBuffers = 0
  /\ pc = "idle"
  /\ EnteredCode = <<>>
  /\ PassCode = <<>>
  /\ Buffer = <<>>
  /\ TakenConsumers = <<>>
  /\ OriginalDeclCount = 0
  /\ pass = 0
  /\ chunks = 0
  /\ emitted = <<>>
  /\ DeclsAtCall = Decls
  /\ BuffersAtCall = 0
  /\ ConsumersAtCall = DiagConsumers
  /\ nextCalls = 0
  /\ lastOp = "none"
  /\ ret = <<>>
  /\ oobRead = FALSE
  /\ declsAdded = FALSE
  /\ errorRaised = FALSE

\* BeginPass registering no buffer of its own for the second pass
BeginPassReusingBuffer(code, n) ==
  /\ TakenConsumers' = DiagConsumers
  /\ DiagConsumers' = <<>>
  /\ PassCode' = code
  /\ Buffer' = AugmentedCode(code)
  /\ NumBuffers' = IF n = 2 THEN NumBuffers ELSE NumBuffers + 1
  /\ OriginalDeclCount' = Len(Decls)
  /\ pass' = n
  /\ chunks' = 0
  /\ pc' = "parse"
  /\ UNCHANGED <<Decls, HadAnyError>>

\* doCodeCompletion up to its parse loop: take the consumers, register the
\* augmented buffer, note the declaration count.
BeginPass(code, n) ==
  /\ TakenConsumers' = DiagConsumers
  /\ DiagConsumers' = <<>>
  /\ PassCode' = code
  /\ Buffer' = AugmentedCode(code)
  /\ NumBuffers' = NumBuffers + 1
  /\ OriginalDeclCount' = Len(Decls)
  /\ pass' = n
  /\ chunks' = 0
  /\ pc' = "parse"
  /\ UNCHANGED <<Decls, HadAnyError>>

\* populate leaving the cached root in place
PopulateKeepingRoot(code) ==
  /\ pc = "idle"
  /\ NumBuffers + 2 <= MaxBuffers
  /\ Prefix' = <<>>
  /\ Root' = Root
  /\ CurrentCompletionIdx' = Unset
  /\ CompletionStrings' = <<>>
  /\ CompletionInsertableStrings' = <<>>
  /\ EnteredCode' = code
  /\ BeginPass(code, 1)
  /\ emitted' = <<>>
  /\ DeclsAtCall' = Decls
  /\ BuffersAtCall' = NumBuffers
  /\ ConsumersAtCall' = DiagConsumers
  /\ nextCalls' = 0
  /\ lastOp' = "populating"
  /\ ret' = <<>>
  /\ oobRead' = FALSE
  /\ declsAdded' = FALSE
  /\ errorRaised' = FALSE
  /\ UNCHANGED State

\* populate leaving the candidate lists in place
PopulateKeepingCandidates(code) ==
  /\ pc = "idle"
  /\ NumBuffers + 2 <= MaxBuffers
  /\ Prefix' = <<>>
  /\ Root' = None
  /\ CurrentCompletionIdx' = Unset
  /\ CompletionStrings' = CompletionStrings
  /\ CompletionInsertableStrings' = CompletionInsertableStrings
  /\ EnteredCode' = code
  /\ BeginPass(code, 1)
  /\ emitted' = <<>>
  /\ DeclsAtCall' = Decls
  /\ BuffersAtCall' = NumBuffers
  /\ ConsumersAtCall' = DiagConsumers
  /\ nextCalls' = 0
  /\ lastOp' = "populating"
  /\ ret' = <<>>
  /\ oobRead' = FALSE
  /\ declsAdded' = FALSE
  /\ errorRaised' = FALSE
  /\ UNCHANGED State

\* populate leaving the cursor in place
PopulateKeepingCursor(code) ==
  /\ pc = "idle"
  /\ NumBuffers + 2 <= MaxBuffers
  /\ Prefix' = <<>>
  /\ Root' = None
  /\ CurrentCompletionIdx' = CurrentCompletionIdx
  /\ CompletionStrings' = <<>>
  /\ CompletionInsertableStrings' = <<>>
  /\ EnteredCode' = code
  /\ BeginPass(code, 1)
  /\ emitted' = <<>>
  /\ DeclsAtCall' = Decls
  /\ BuffersAtCall' = NumBuffers
  /\ ConsumersAtCall' = DiagConsumers
  /\ nextCalls' = 0
  /\ lastOp' = "populating"
  /\ ret' = <<>>
  /\ oobRead' = FALSE
  /\ declsAdded' = FALSE
  /\ errorRaised' = FALSE
  /\ UNCHANGED State

\* populate, from its entry into the first pass
Populate(code) ==
  /\ pc = "idle"
  /\ NumBuffers + 2 <= MaxBuffers
  /\ Prefix' = <<>>
  /\ Root' = None
  /\ CurrentCompletionIdx' = Unset
  /\ CompletionStrings' = <<>>
  /\ CompletionInsertableStrings' = <<>>
  /\ EnteredCode' = code
  /\ BeginPass(code, 1)
  /\ emitted' = <<>>
  /\ DeclsAtCall' = Decls
  /\ BuffersAtCall' = NumBuffers
  /\ ConsumersAtCall' = DiagConsumers
  /\ nextCalls' = 0
  /\ lastOp' = "populating"
  /\ ret' = <<>>
  /\ oobRead' = FALSE
  /\ declsAdded' = FALSE
  /\ errorRaised' = FALSE
  /\ UNCHANGED State

\* One round of the parse loop: parseIntoTranslationUnit and
\* performTypeChecking on one chunk.
ParseChunk ==
  /\ pc = "parse"
  /\ \E added \in BOOLEAN, err \in BOOLEAN, Done \in BOOLEAN :
       /\ Done \/ chunks + 1 < MaxChunks
       /\ Decls' = Decls \o NewDecls(added)
       /\ HadAnyError' = (HadAnyError \/ err)
       /\ chunks' = IF Done THEN 0 ELSE chunks + 1
       /\ pc' = IF Done THEN "complete" ELSE "parse"
       /\ declsAdded' = (declsAdded \/ added)
       /\ errorRaised' = (errorRaised \/ err)
  /\ UNCHANGED <<session, DiagConsumers, NumBuffers, EnteredCode, PassCode,
                 Buffer, TakenConsumers, OriginalDeclCount, pass,
                 history>>

\* performDelayedParsing delivers one batch to the consumer.
HandleResults(Results) ==
  /\ pc = "complete"
  /\ Len(emitted) + Len(Results) <= MaxResults
  /\ LET r == handleResults(Results, Prefix, CompletionStrings,
                            CompletionInsertableStrings)
     IN  /\ CompletionStrings' = r.strs
         /\ CompletionInsertableStrings' = r.ins
  /\ emitted' = emitted \o [i \in 1..Len(Results) |->
                              [pass |-> pass, result |-> Results[i]]]
  /\ UNCHANGED <<passNotes, State, Prefix, Root, CurrentCompletionIdx, unit, pc,
                 EnteredCode, PassCode, Buffer, TakenConsumers,
                 OriginalDeclCount, pass, chunks, DeclsAtCall, BuffersAtCall,
                 ConsumersAtCall, nextCalls, lastOp, ret, oobRead>>

\* performDelayedParsing returns; the rest of doCodeCompletion.
EndPass ==
  /\ pc = "complete"
  /\ Decls' = ResizeDecls(Decls, OriginalDeclCount)
  /\ DiagConsumers' = AddConsumers(DiagConsumers, TakenConsumers)
  /\ HadAnyError' = FALSE
  /\ pc' = IF pass = 1 THEN "tokenize" ELSE "classify"
  /\ UNCHANGED <<passNotes, session, NumBuffers, EnteredCode, PassCode, Buffer,
                 TakenConsumers, OriginalDeclCount, pass, chunks,
                 history>>

\* WantsSecondPass without the keyword case
WantsSecondPassIdentifierOnly(Tokens) ==
  /\ Tokens # <<>>
  /\ Tokens[Len(Tokens)].kind = "identifier"

\* Whether populate runs the second pass on these tokens
WantsSecondPass(Tokens) ==
  /\ Tokens # <<>>
  /\ Tokens[Len(Tokens)].kind \in {"identifier", "keyword"}

\* populate after the first pass, the last token being an identifier or a
\* keyword: set the prefix and enter the second pass on the truncated code.
SecondPass ==
  /\ pc = "tokenize"
  /\ LET Tokens == tokenize(Buffer) IN
       /\ WantsSecondPass(Tokens)
       /\ LET LastToken == Tokens[Len(Tokens)]
              Offset == LastToken.loc
          IN  /\ Prefix' = LastToken.text
              /\ BeginPass(SubstrTo(EnteredCode, Offset), 2)
  /\ UNCHANGED <<passNotes, State, Root, CurrentCompletionIdx, CompletionStrings,
                 CompletionInsertableStrings, EnteredCode, history>>

\* populate after the first pass, with no token or another last token
NoSecondPass ==
  /\ pc = "tokenize"
  /\ ~WantsSecondPass(tokenize(Buffer))
  /\ pc' = "classify"
  /\ UNCHANGED <<passNotes, session, unit, EnteredCode, PassCode, Buffer,
                 TakenConsumers, OriginalDeclCount, pass, chunks,
                 history>>

\* The end of populate: classify and return.
Return ==
  /\ pc = "classify"
  /\ State' = Classify(CompletionInsertableStrings)
  /\ pc' = "idle"
  /\ EnteredCode' = <<>>
  /\ PassCode' = <<>>
  /\ Buffer' = <<>>
  /\ TakenConsumers' = <<>>
  /\ OriginalDeclCount' = 0
  /\ chunks' = 0
  /\ lastOp' = "populate"
  /\ UNCHANGED <<passNotes, Prefix, Root, CurrentCompletionIdx, CompletionStrings,
                 CompletionInsertableStrings, unit, pass, emitted,
                 DeclsAtCall, BuffersAtCall, ConsumersAtCall, nextCalls, ret,
                 oobRead>>

\* The log of the last populate is kept until the next operation returns.
ForgetLog ==
  /\ emitted' = <<>>
  /\ declsAdded' = FALSE
  /\ errorRaised' = FALSE

GetRoot ==
  /\ pc = "idle"
  /\ \E r \in getRoot(Root, CompletionInsertableStrings) :
       /\ Root' = Some(r.root)
       /\ ret' = r.root
       /\ oobRead' = r.oob
  /\ lastOp' = "getRoot"
  /\ ForgetLog
  /\ UNCHANGED <<State, Prefix, CurrentCompletionIdx, CompletionStrings,
                 CompletionInsertableStrings, unit, locals,
                 DeclsAtCall, BuffersAtCall, ConsumersAtCall, nextCalls>>

\* GetPreviousStem moving the cursor to the candidate before
GetPreviousStemSteppingBack ==
  /\ pc = "idle"
  /\ \E o \in getPreviousStem(CurrentCompletionIdx,
                              CompletionInsertableStrings, Root) :
       /\ ret' = o.ret
       /\ Root' = o.root
       /\ oobRead' = o.oob
  /\ lastOp' = "getPreviousStem"
  /\ ForgetLog
  /\ CurrentCompletionIdx' =
       IF CurrentCompletionIdx = Unset \/ CurrentCompletionIdx = 0
       THEN CurrentCompletionIdx ELSE CurrentCompletionIdx - 1
  /\ UNCHANGED <<State, Prefix,
                 CompletionStrings, CompletionInsertableStrings, unit,
                 locals, DeclsAtCall, BuffersAtCall, ConsumersAtCall,
                 nextCalls>>

GetPreviousStem ==
  /\ pc = "idle"
  /\ \E o \in getPreviousStem(CurrentCompletionIdx,
                              CompletionInsertableStrings, Root) :
       /\ ret' = o.ret
       /\ Root' = o.root
       /\ oobRead' = o.oob
  /\ lastOp' = "getPreviousStem"
  /\ ForgetLog
  /\ UNCHANGED <<State, Prefix, CurrentCompletionIdx,
                 CompletionStrings, CompletionInsertableStrings, unit,
                 locals, DeclsAtCall, BuffersAtCall, ConsumersAtCall,
                 nextCalls>>

GetNextStem ==
  /\ pc = "idle"
  /\ nextCalls < MaxCalls
  /\ \E o \in getNextStem(CurrentCompletionIdx,
                          CompletionInsertableStrings, Root) :
       /\ ret' = o.ret
       /\ CurrentCompletionIdx' = o.idx
       /\ Root' = o.root
       /\ oobRead' = o.oob
  /\ nextCalls' = nextCalls + 1
  /\ lastOp' = "getNextStem"
  /\ ForgetLog
  /\ UNCHANGED <<State, Prefix, CompletionStrings,
                 CompletionInsertableStrings, unit, locals,
                 DeclsAtCall, BuffersAtCall, ConsumersAtCall>>

Reset ==
  /\ pc = "idle"
  /\ State' = "Invalid"
  /\ lastOp' = "reset"
  /\ ForgetLog
  /\ ret' = <<>>
  /\ oobRead' = FALSE
  /\ UNCHANGED <<Prefix, Root, CurrentCompletionIdx, CompletionStrings,
                 CompletionInsertableStrings, unit, locals,
                 DeclsAtCall, BuffersAtCall, ConsumersAtCall, nextCalls>>

Next ==
  \/ \E code \in Codes : Populate(code)
  \/ ParseChunk
  \/ \E Results \in Batches : HandleResults(Results)
  \/ EndPass
  \/ SecondPass
  \/ NoSecondPass
  \/ Return
  \/ GetRoot
  \/ GetPreviousStem
  \/ GetNextStem
  \/ Reset

Spec == Init /\ [][Next]_vars

\* A step inside populate.  populate is straight-line code: once called it
\* goes on, the parser finishing each pass in finitely many chunks and the
\* generator delivering finitely many batches.
PopulateStep ==
  \/ ParseChunk
  \/ \E Results \in Batches : HandleResults(Results)
  \/ EndPass
  \/ SecondPass
  \/ NoSecondPass
  \/ Return

SpecFair == Spec /\ WF_vars(PopulateStep)

\* ---------------------------------------------- the consumer on its own
\* A chunk of each kind; a Text chunk holds one of a few texts.
ChunkValues ==
  {Chunk("Text", t) : t \in {<<"a">>, <<"b">>}}
    \cup {Chunk("LeftParen", <<"(">>), Chunk("RightParen", <<")">>),
          Chunk("LeftBracket", <<"[">>), Chunk("RightBracket", <<"]">>),
          Chunk("Dot", <<".">>), Chunk("Comma", <<",">>),
          Chunk("CallParameterName", <<"x">>),
          Chunk("CallParameterNameAnnotation", <<"y">>),
          Chunk("CallParameterColon", <<":">>),
          Chunk("CallParameterColonAnnotation", <<";">>),
          Chunk("CallParameterType", <<"T">>),
          Chunk("OptionalBegin", <<"?">>),
          Chunk("CallParameterBegin", <<"{">>),
          Chunk("TypeAnnotation", <<"U">>)}

\* Every raw result of up to MaxChunksPerResult chunks
ChunkSeqs == UNION {StrOfLen(ChunkValues, n) : n \in 0..MaxChunksPerResult}

\* The raw results the consumer is given on its own: those of the generator
\* and some that differ from them in case or in length
CollectorResults ==
  RawResults \cup { << Chunk("Text", <<"A", "b">>) >>,
                    << Chunk("Text", <<"a">>) >>,
                    << Chunk("Text", <<"a">>), Chunk("Dot", <<".">>),
                       Chunk("TypeAnnotation", <<"U">>) >> }

CollectorBatches == UNION {StrOfLen(CollectorResults, n) : n \in 1..MaxResults}

\* populate inside performDelayedParsing: in its first pass on the empty
\* code when P is empty, else in its second pass on the entered code P.
InPass(P) ==
  /\ State = "Invalid"
  /\ Prefix = P
  /\ Root = None
  /\ CurrentCompletionIdx = Unset
  /\ CompletionStrings = <<>>
  /\ CompletionInsertableStrings = <<>>
  /\ Decls = <<"persistent">>
  /\ DiagConsumers = <<>>
  /\ HadAnyError = FALSE
  /\ NumBuffers = IF P = <<>> THEN 1 ELSE 2
  /\ pc = "complete"
  /\ EnteredCode = P
  /\ PassCode = <<>>
  /\ Buffer = AugmentedCode(<<>>)
  /\ TakenConsumers = <<"printing", "logging">>
  /\ OriginalDeclCount = 1
  /\ pass = IF P = <<>> THEN 1 ELSE 2
  /\ chunks = 0
  /\ emitted = <<>>
  /\ DeclsAtCall = Decls
  /\ BuffersAtCall = 0
  /\ ConsumersAtCall = TakenConsumers
  /\ nextCalls = 0
  /\ lastOp = "populating"
  /\ ret = <<>>
  /\ oobRead = FALSE
  /\ declsAdded = FALSE
  /\ errorRaised = FALSE

\* The consumer is handed one raw result, of any chunks.
RenderOne ==
  /\ emitted = <<>>
  /\ \E Result \in ChunkSeqs : HandleResults(<<Result>>)

SpecRender == InPass(<<>>) /\ [][RenderOne]_vars

\* The consumer is handed batches under a prefix.
Deliver == \E Results \in CollectorBatches : HandleResults(Results)

SpecCollector ==
  /\ \E P \in {<<>>, <<"a">>, <<"a", "a">>} : InPass(P)
  /\ [][Deliver]_vars

\* --------------------------------------------------------------- properties
\* populate has returned and nothing was called since.
Returned == pc = "idle" /\ lastOp = "populate"

\* populate has returned at least once and none is in progress.
Populated == pc = "idle" /\ pass > 0

Reads == {"getRoot", "getNextStem", "getPreviousStem"}

\* The raw results delivered during pass n of this populate, in order
PassResults(n) ==
  LET es == SelectSeq(emitted, LAMBDA e : e.pass = n)
  IN  [i \in 1..Len(es) |-> es[i].result]

\* The insertable texts of rs that begin with P, with P removed
KeptStripped(rs, P) ==
  LET ks == SelectSeq(rs, LAMBDA r : StartsWith(toInsertableString(r), P))
  IN  [i \in 1..Len(ks) |->
         SubSeq(toInsertableString(ks[i]), Len(P) + 1,
                Len(toInsertableString(ks[i])))]

\* The longest string that is a prefix of every element of ss
LongestCommonPrefix(ss) ==
  IF ss = <<>> THEN <<>>
  ELSE LET ns == {n \in 0..Len(ss[1]) :
                    \A i \in DOMAIN ss : StartsWith(ss[i], SubSeq(ss[1], 1, n))}
           k == CHOOSE n \in ns : \A m \in ns : m <= n
       IN  SubSeq(ss[1], 1, k)

\* C1: after a populate that ran the second pass, the stored insertable
\* texts are exactly the second pass's results that begin with the prefix,
\* each with the prefix removed; nothing of the first pass remains.
C1_SecondPassResultsOnly ==
  (Returned /\ pass = 2) =>
     CompletionInsertableStrings = KeptStripped(PassResults(2), Prefix)

\* C2: after populate, for every stored candidate the final prefix followed
\* by the stored text is the insertable text of a raw result delivered
\* during that populate.
C2_PrefixFilterInvariant ==
  Returned =>
     \A i \in DOMAIN CompletionInsertableStrings :
        \E j \in DOMAIN emitted :
           Prefix \o CompletionInsertableStrings[i] =
             toInsertableString(emitted[j].result)

\* C3: when populate has returned, the declarations of the translation unit
\* are those it held when populate was called.
C3_DeclarationRollback == Populated => Decls = DeclsAtCall

C3_Witness ==
  /\ Returned
  /\ pass = 2
  /\ declsAdded
  /\ Decls = DeclsAtCall
  /\ Decls # <<>>

\* C4: while a pass parses, type checks or completes, no diagnostic consumer
\* is attached; when populate has returned, the consumers attached are those
\* attached at the call, in the same order, and the error flag is clear.
C4_DiagnosticsSuppressedAndRestored ==
  /\ pc \in {"parse", "complete"} => DiagConsumers = <<>>
  /\ Populated => (DiagConsumers = ConsumersAtCall /\ ~HadAnyError)

C4_Witness ==
  /\ Returned
  /\ pass = 2
  /\ errorRaised
  /\ Len(DiagConsumers) = 2
  /\ DiagConsumers = ConsumersAtCall
  /\ ~HadAnyError

C6_RootIsLongestCommonPrefix ==
  (pc = "idle" /\ lastOp = "getRoot") =>
     /\ ret = LongestCommonPrefix(CompletionInsertableStrings)
     /\ ~oobRead

\* The cursor selects a stored candidate.
CursorInBounds ==
  CurrentCompletionIdx = Unset
    \/ CurrentCompletionIdx < Len(CompletionInsertableStrings)

C7_SelectsInOrder ==
  (pc = "idle" /\ lastOp = "getNextStem"
     /\ CompletionInsertableStrings # <<>>) =>
     LET N == Len(CompletionInsertableStrings)
         k == nextCalls
     IN  /\ CurrentCompletionIdx = (k - 1) % N
         /\ Root # None
         /\ ret = Stem(CompletionInsertableStrings[((k - 1) % N) + 1], Root[1])

\* C7: with N >= 1 candidates stored, the k-th getNextStem call since
\* populate selects candidate (k-1) mod N and returns its stem; the root the
\* stems are cut at, once computed, and the candidates stay as they are
\* between calls, so the call N calls later returns the same stem.
C7_NextStemCycles ==
  /\ []C7_SelectsInOrder
  /\ [][(pc = "idle" /\ pc' = "idle" /\ Root # None) =>
          (Root' = Root /\ UNCHANGED CompletionInsertableStrings)]_vars

C7_Witness ==
  /\ pc = "idle"
  /\ lastOp = "getNextStem"
  /\ Len(CompletionInsertableStrings) = 2
  /\ nextCalls = 3
  /\ CurrentCompletionIdx = 0
  /\ ret # <<>>

C8_RereadsSelection ==
  (pc = "idle" /\ lastOp = "getPreviousStem") =>
     IF CurrentCompletionIdx = Unset \/ CompletionInsertableStrings = <<>>
     THEN ret = <<>>
     ELSE /\ CursorInBounds
          /\ Root # None
          /\ ret = Stem(CompletionInsertableStrings[CurrentCompletionIdx + 1],
                        Root[1])

\* C8: getPreviousStem returns the stem of the candidate the cursor selects
\* and leaves the cursor where it is; right after getNextStem, or after
\* another getPreviousStem, it returns the stem that call returned; it
\* returns the empty string while the cursor is unset or nothing is stored.
C8_PreviousStemRereads ==
  /\ []C8_RereadsSelection
  /\ [][lastOp' = "getPreviousStem" =>
          /\ CurrentCompletionIdx' = CurrentCompletionIdx
          /\ lastOp \in {"getNextStem", "getPreviousStem"} => ret' = ret
          /\ nextCalls = 0 => ret' = <<>>]_vars

C8_Witness ==
  /\ pc = "idle"
  /\ lastOp = "getPreviousStem"
  /\ Len(CompletionInsertableStrings) >= 2
  /\ CurrentCompletionIdx = 1
  /\ ret # <<>>

\* C9: reset sets State to Invalid and leaves the candidates, the prefix,
\* the cached root and the cursor as they were; State then stays Invalid
\* until populate returns, and the reads made meanwhile stay in bounds.
C9_ResetKeepsDataAndReadsStayInBounds ==
  /\ [][lastOp' = "reset" =>
          /\ State' = "Invalid"
          /\ UNCHANGED <<Prefix, Root, CurrentCompletionIdx,
                         CompletionStrings, CompletionInsertableStrings>>]_vars
  /\ [][(pc = "idle" /\ pc' = "idle" /\ State = "Invalid") =>
          State' = "Invalid"]_vars
  /\ []((pc = "idle" /\ State = "Invalid" /\ lastOp \in Reads) =>
          (CursorInBounds /\ ~oobRead))

\* C10: while no candidate is stored after a populate, State is Empty when
\* populate returns (and is Invalid only after a reset), getRoot, getNextStem
\* and getPreviousStem return the empty string, and the cursor stays unset.
C10_EmptyResult ==
  (Populated /\ CompletionInsertableStrings = <<>>) =>
     /\ lastOp = "populate" => State = "Empty"
     /\ State \in {"Empty", "Invalid"}
     /\ lastOp \in Reads => ret = <<>>
     /\ CurrentCompletionIdx = Unset

C10_Witness ==
  /\ Populated
  /\ CompletionInsertableStrings = <<>>
  /\ pass = 2
  /\ Prefix # <<>>
  /\ State = "Empty"
  /\ lastOp = "getNextStem"
  /\ nextCalls >= 2
  /\ ret = <<>>

\* The index of the first chunk of a non-literal kind, or one past the end
FirstNonLiteral(cs) ==
  LET is == {i \in DOMAIN cs : cs[i].kind \in NonLiteralKinds}
  IN  IF is = {} THEN Len(cs) + 1
      ELSE CHOOSE i \in is : \A j \in is : i <= j

\* The texts of cs 1..n, concatenated in order
RECURSIVE ConcatTexts(_, _)
ConcatTexts(cs, n) ==
  IF n = 0 THEN <<>> ELSE ConcatTexts(cs, n - 1) \o cs[n].text

\* C11: the insertable text of a raw result is the concatenation, in order,
\* of the texts of the cs before its first chunk of a non-literal kind;
\* the result is stored, not rejected, and its display string is its full
\* rendering.
C11_TruncationRule ==
  emitted # <<>> =>
     LET cs == emitted[1].result IN
       /\ CompletionInsertableStrings =
            << ConcatTexts(cs, FirstNonLiteral(cs) - 1) >>
       /\ CompletionStrings = << ConcatTexts(cs, Len(cs)) >>

C11_Witness ==
  /\ emitted # <<>>
  /\ LET cs == emitted[1].result IN
       /\ Len(cs) = 3
       /\ cs[1].kind = "Text"
       /\ cs[2].kind = "CallParameterBegin"
       /\ cs[3].kind = "RightParen"
       /\ CompletionInsertableStrings = <<cs[1].text>>

\* The displays of the results of rs whose insertable text begins with P
KeptDisplays(rs, P) ==
  LET ks == SelectSeq(rs, LAMBDA r : StartsWith(toInsertableString(r), P))
  IN  [i \in 1..Len(ks) |-> PrintResult(ks[i])]

AllResults == [i \in 1..Len(emitted) |-> emitted[i].result]

\* C12: the candidates stored under a prefix are the delivered results whose
\* insertable text begins with the prefix, character by character, in
\* delivery order and with duplicates kept; each is stored as its display
\* string and its insertable text without the prefix, at the same index of
\* the two lists.
C12_CollectorOrderAndAlignment ==
  /\ CompletionInsertableStrings = KeptStripped(AllResults, Prefix)
  /\ CompletionStrings = KeptDisplays(AllResults, Prefix)
  /\ Len(CompletionStrings) = Len(CompletionInsertableStrings)

C12_Witness ==
  /\ Prefix = <<"a">>
  /\ Len(emitted) = 2
  /\ emitted[1].result = << Chunk("Text", <<"A", "b">>) >>
  /\ emitted[2].result = << Chunk("Text", <<"a">>), Chunk("Text", <<"b">>) >>
  /\ CompletionInsertableStrings = << <<"b">> >>

\* Whether the last token of the augmented buffer of code is an identifier
\* or a keyword
EndsInWord(code) ==
  LET T == tokenize(AugmentedCode(code)) IN
    /\ T # <<>>
    /\ (T[Len(T)].kind = "identifier" \/ T[Len(T)].kind = "keyword")

LastTokenOf(code) ==
  LET T == tokenize(AugmentedCode(code)) IN T[Len(T)]

C13_PassShape ==
  pc # "idle" =>
    /\ pass \in {1, 2}
    /\ pass = 1 => Prefix = <<>>
    /\ pass = 2 => (EndsInWord(EnteredCode)
                     /\ Prefix = LastTokenOf(EnteredCode).text)
    /\ pc = "classify" => (pass = 2 <=> EndsInWord(EnteredCode))

\* C13: a populate call runs one pass or two and then returns; it runs the
\* second pass exactly when the tokens of the first pass's buffer end in an
\* identifier or a keyword, with Prefix set to that token's text from the
\* start of the second pass on, and Prefix stays empty otherwise; a pass is
\* entered only once, the first from the call and the second from the
\* token test after the first.
C13_PassCount ==
  /\ []C13_PassShape
  /\ [][(pc' = "parse" /\ pc # "parse") =>
          \/ pc = "idle" /\ pass' = 1
          \/ pc = "tokenize" /\ pass = 1 /\ pass' = 2]_vars
  /\ [][pc = "classify" => pc' = "idle"]_vars
  /\ ((pc # "idle") ~> Returned)

C13_Witness ==
  /\ pc = "classify"
  /\ pass = 2
  /\ Prefix \in Keywords

\* C14: in the second pass the source is the entered code cut at the offset
\* of the last token, that source followed by Prefix is the entered code, and
\* the offset is at most the length of the entered code.
C14_SecondPassTruncation ==
  (pc # "idle" /\ pass = 2) =>
     LET Offset == LastTokenOf(EnteredCode).loc IN
       /\ Offset <= Len(EnteredCode)
       /\ PassCode = SubSeq(EnteredCode, 1, Offset)
       /\ PassCode \o Prefix = EnteredCode

\* C15: getRoot, getNextStem and getPreviousStem leave State, Prefix and the
\* two candidate lists as they are, and getRoot and getPreviousStem leave
\* the cursor as it is; the candidate lists and Prefix change only inside
\* populate, and State changes only when populate or reset returns.
C15_ReadsAreReadOnly ==
  /\ [][(pc = "idle" /\ pc' = "idle" /\ lastOp' \in Reads) =>
          /\ UNCHANGED <<State, Prefix, CompletionStrings,
                         CompletionInsertableStrings>>
          /\ lastOp' \in {"getRoot", "getPreviousStem"} =>
               UNCHANGED CurrentCompletionIdx]_vars
  /\ [][(CompletionStrings' # CompletionStrings
           \/ CompletionInsertableStrings' # CompletionInsertableStrings
           \/ Prefix' # Prefix) => pc' \in {"parse", "complete"}]_vars
  /\ [][State' # State => lastOp' \in {"populate", "reset"}]_vars

C15_Witness ==
  /\ pc = "idle"
  /\ lastOp = "getPreviousStem"
  /\ State = "CompletedRoot"
  /\ CurrentCompletionIdx = 1
  /\ ret # <<>>

\* C16 as stated: right after a populate and right after a reset no root is
\* cached.
C16_RootClearedByPopulateAndReset ==
  (pc = "idle" /\ lastOp \in {"populate", "reset"}) => Root = None

\* C16: right after a populate no root is cached, and the next getRoot
\* computes the root from the candidates stored then (their longest common
\* prefix, unless the scan ran past the end of a candidate); a reset leaves
\* the cached root as it is.
C16_RootClearedByPopulateOnly ==
  /\ [](Returned => Root = None)
  /\ [][(pc = "idle" /\ lastOp' = "getRoot" /\ Root = None) =>
          /\ Root' = Some(ret')
          /\ ~oobRead' =>
               ret' = LongestCommonPrefix(CompletionInsertableStrings)]_vars
  /\ [][lastOp' = "reset" => Root' = Root]_vars

C16_Witness ==
  /\ pc = "idle"
  /\ lastOp = "reset"
  /\ Root # None
  /\ Root # Some(<<>>)

C18_RootStemRoundTrip ==
  (pc = "idle" /\ lastOp \in {"getNextStem", "getPreviousStem"}
     /\ CompletionInsertableStrings # <<>>
     /\ CurrentCompletionIdx # Unset) =>
     /\ Root # None
     /\ Root[1] \o ret = CompletionInsertableStrings[CurrentCompletionIdx + 1]
     /\ \A i \in DOMAIN CompletionInsertableStrings :
          Len(Root[1]) <= Len(CompletionInsertableStrings[i])
     /\ Len(CompletionInsertableStrings) = 1 =>
          (Root[1] = CompletionInsertableStrings[1] /\ ret = <<>>)

C20_SourceBufferGrowth ==
  /\ [](Returned => (pass \in {1, 2} /\ NumBuffers = BuffersAtCall + pass))
  /\ [][NumBuffers' >= NumBuffers]_vars
  /\ [][(pc' = "parse" /\ pc # "parse") =>
          NumBuffers' = NumBuffers + 1]_vars

C20_Witness ==
  /\ Returned
  /\ pass = 2
  /\ NumBuffers = BuffersAtCall + 2
  /\ declsAdded
  /\ Decls = DeclsAtCall

====
